---- MODULE Spec2Model ----
(***************************************************************************)
(* Model of the bookmark categorization stage (src/src/categorize_        *)
(* bookmarks.py), of the oracle it calls (src/src/openai_llm.py), of the   *)
(* validate and reorganize stages that come before it (src/src/validate_   *)
(* bookmarks.py, src/src/reorganize_bookmarks.py) and of the top-level     *)
(* driver (src/main.py) that runs them.                                    *)
(*                                                                         *)
(* A folder map is a Python dict, which keeps insertion order: it is       *)
(* modelled as a sequence of entries [name, parent, bookmarks].  A         *)
(* bookmark is identified by a small integer.                              *)
(***************************************************************************)
EXTENDS Integers, Sequences, FiniteSets, TLC

(* ------------------------------ bounds --------------------------------- *)
MaxBookmarks == 2      \* bookmarks in the input folder map
MaxFolders == 2        \* folders in the input folder map
MaxCap == 2            \* largest configured max_categories
MaxBatch == 2          \* largest configured batch_size
MaxExtra == 0          \* most entries an oracle mapping holds beyond len(batch)
MaxSequence == 3       \* longest to-be-categorized sequence of the batching specification

(* --------------------------- name universe ----------------------------- *)
None == "<None>"
NotWritten == [written |-> FALSE, content |-> <<>>]
Written(content) == [written |-> TRUE, content |-> content]
InputNames == {"Uncategorized", "uncategorized", "Tech", "Other"}
OracleNames == {"Tech", "News", "Other", "Uncategorized"}
ProtectedChoices == {<<>>, <<"Tech">>}
OracleFailures == {"no_json", "bad_json", "transport"}
\* folder names of the pipeline specification: "TechStuff" starts with "Tech"
PipelineNames == {"Uncategorized", "Tech", "TechStuff"}
\* a JSON file of bookmarks: the folder map, the bookmarks whose
\* 'date-verified' is within the threshold, and the run that wrote the file
JsonFile(content, verified, origin) ==
  [written |-> TRUE, content |-> content, verified |-> verified, origin |-> origin]
AbsentJson == [written |-> FALSE, content |-> <<>>, verified |-> {}, origin |-> "none"]
\* data/updated_bookmarks.json as an earlier run left it
StaleJson ==
  JsonFile(<<[name |-> "Uncategorized", parent |-> None, bookmarks |-> <<0>>]>>,
           {0}, "earlier")

(* ----------------------------- Python helpers -------------------------- *)
Min(a, b) == IF a < b THEN a ELSE b

\* x in list
InList(x, list) == \E k \in 1..Len(list) : list[k] = x

\* str.lower(), for the upper-case letters that occur in the name universe
LowerChar(c) ==
  CASE c = "U" -> "u" [] c = "T" -> "t" [] c = "O" -> "o" [] c = "N" -> "n"
    [] c = "S" -> "s" [] OTHER -> c

RECURSIVE Lower(_)
Lower(s) ==
  IF Len(s) = 0 THEN ""
  ELSE LowerChar(SubSeq(s, 1, 1)) \o Lower(SubSeq(s, 2, Len(s)))

\* dict helpers (insertion-ordered)
Keys(d) == [k \in 1..Len(d) |-> d[k].name]
KeySet(d) == {d[k].name : k \in 1..Len(d)}
Has(d, name) == name \in KeySet(d)
IndexOf(d, name) == CHOOSE k \in 1..Len(d) : d[k].name = name
Get(d, name) == d[IndexOf(d, name)]
Entry(name, parent, bms) == [name |-> name, parent |-> parent, bookmarks |-> bms]
\* d[name] = {"parent": parent, "bookmarks": bms}
Put(d, name, parent, bms) ==
  IF Has(d, name)
  THEN [d EXCEPT ![IndexOf(d, name)] = Entry(name, parent, bms)]
  ELSE Append(d, Entry(name, parent, bms))
\* d[name]["bookmarks"].append(b)
AppendTo(d, name, b) ==
  [d EXCEPT ![IndexOf(d, name)].bookmarks = Append(@, b)]
\* d.get(name, {}).get('bookmarks', [])
BookmarksOf(d, name) == IF Has(d, name) THEN Get(d, name).bookmarks ELSE <<>>

RECURSIVE Flatten(_)
\* concatenation of the bookmark lists of the entries of d, in order
Flatten(d) ==
  IF Len(d) = 0 THEN <<>> ELSE Head(d).bookmarks \o Flatten(Tail(d))

SeqToSet(s) == {s[k] : k \in 1..Len(s)}
\* str.startswith
StartsWith(s, prefix) == Len(prefix) <= Len(s) /\ SubSeq(s, 1, Len(prefix)) = prefix
Count(s, x) == Cardinality({k \in 1..Len(s) : s[k] = x})

\* list[j] with a 0-based Python index j (negative indices count from the end)
PyInRange(list, j) == (j >= 0 /\ j < Len(list)) \/ (j < 0 /\ -j <= Len(list))
PyIndex(list, j) == IF j >= 0 THEN list[j + 1] ELSE list[Len(list) + j + 1]

(* ------------------------- input folder maps --------------------------- *)
\* the bookmarks b of 1..n with f[b] = k, in ascending order
RECURSIVE Assigned(_, _, _, _)
Assigned(f, n, k, b) ==
  IF b > n THEN <<>>
  ELSE (IF f[b] = k THEN <<b>> ELSE <<>>) \o Assigned(f, n, k, b + 1)

NameSeqs ==
  UNION {{s \in [1..m -> InputNames] : \A a, b \in 1..m : a # b => s[a] # s[b]}
         : m \in 1..MaxFolders}

\* a folder's parent is absent or a folder that precedes it in the map
ParentChoices(names) ==
  {p \in [1..Len(names) -> {None} \cup InputNames] :
     \A k \in 1..Len(names) :
        p[k] = None \/ \E a \in 1..(k - 1) : names[a] = p[k]}

MakeMap(names, n, f, p) ==
  [k \in 1..Len(names) |-> Entry(names[k], p[k], Assigned(f, n, k, 1))]

InputMaps ==
  UNION {UNION {{MakeMap(names, n, f, p) :
                   f \in [1..n -> 1..Len(names)], p \in ParentChoices(names)}
                : n \in 0..MaxBookmarks}
         : names \in NameSeqs}

\* the folder maps of the pipeline specification: top-level folders only
PipelineNameSeqs ==
  UNION {{s \in [1..m -> PipelineNames] : \A a, b \in 1..m : a # b => s[a] # s[b]}
         : m \in 1..MaxFolders}

PipelineMaps ==
  UNION {UNION {{MakeMap(names, n, f, [k \in 1..Len(names) |-> None]) :
                   f \in [1..n -> 1..Len(names)]}
                : n \in 0..MaxBookmarks}
         : names \in PipelineNameSeqs}

(* ------------------------------- state --------------------------------- *)
VARIABLES
  bookmarks_json,        \* data/bookmarks.json when the validate stage starts
  updated_json,          \* data/updated_bookmarks.json
  retired_file,          \* data/retired_bookmarks.json as written by the run
  max_categories,        \* config.yaml: max_categories
  protected_folders,     \* config.yaml: Protected Folders
  batch_size,            \* config.yaml: batch_size
  organize_all,          \* argument of categorize_bookmarks
  bookmarks,             \* data/reorganized_bookmarks.json as loaded
  existing_categories,   \* the vocabulary (a list)
  categorized_bookmarks, \* the output folder map being built
  bookmarks_to_categorize,
  i,                     \* loop offset of the batch loop
  batch,                 \* the current batch
  seen,                  \* keys of the current oracle mapping iterated so far
  processed_bookmarks,
  pc,                    \* position in categorize_bookmarks
  error,                 \* the exception that left categorize_bookmarks
  output_file,           \* data/categorized_bookmarks.json as written by the run
  categories_file,       \* data/categories.json as written by the run
  stage,                 \* position of the driver main()
  oracle_calls,          \* history: arguments of every oracle call
  initial_categories,    \* history: the vocabulary the run started with
  placements,            \* history: <<bookmark, category returned, folder appended to>>
  novel,                 \* history: names returned by the oracle that no input folder has, in order of first return
  omitted,               \* history: some completed oracle mapping lacked an index of 1..len(batch)
  stray                  \* history: some oracle mapping held a key outside 1..len(batch)

vars == <<bookmarks_json, updated_json, retired_file, max_categories, protected_folders, batch_size, organize_all, bookmarks,
          existing_categories, categorized_bookmarks, bookmarks_to_categorize,
          i, batch, seen, processed_bookmarks, pc, error, output_file,
          categories_file, stage, oracle_calls, initial_categories, placements,
          novel, omitted, stray>>

config == <<max_categories, protected_folders, batch_size, organize_all>>
history == <<oracle_calls, initial_categories, placements, novel, omitted, stray>>
files == <<output_file, categories_file>>
upstream == <<bookmarks_json, updated_json, retired_file>>

\* the state of a run before categorize_bookmarks is entered
InitRun ==
  /\ existing_categories = <<>>
  /\ categorized_bookmarks = <<>>
  /\ bookmarks_to_categorize = <<>>
  /\ i = 0
  /\ batch = <<>>
  /\ seen = {}
  /\ processed_bookmarks = 0
  /\ pc = "entry"
  /\ error = None
  /\ output_file = NotWritten
  /\ categories_file = NotWritten
  /\ retired_file = NotWritten
  /\ oracle_calls = <<>>
  /\ initial_categories = <<>>
  /\ placements = {}
  /\ novel = <<>>
  /\ omitted = FALSE
  /\ stray = FALSE

Init ==
  /\ max_categories \in 1..MaxCap
  /\ protected_folders \in ProtectedChoices
  /\ batch_size \in 1..MaxBatch
  /\ organize_all \in BOOLEAN
  /\ bookmarks \in InputMaps
  /\ bookmarks_json = AbsentJson
  /\ updated_json = AbsentJson
  /\ stage = "categorize"
  /\ InitRun

\* incremental runs over one "Uncategorized" folder of up to MaxSequence bookmarks
InitBatches ==
  /\ max_categories \in 1..MaxCap
  /\ protected_folders = <<>>
  /\ batch_size \in 1..MaxBatch
  /\ organize_all = FALSE
  /\ bookmarks \in {<<Entry("Uncategorized", None, [b \in 1..n |-> b])>> : n \in 0..MaxSequence}
  /\ bookmarks_json = AbsentJson
  /\ updated_json = AbsentJson
  /\ stage = "categorize"
  /\ InitRun

\* the pipeline of main.py after the import stage: bookmarks.json is the file
\* the import stage wrote, or is absent; updated_bookmarks.json is absent or
\* left by an earlier run
InitPipeline ==
  /\ max_categories \in 1..MaxCap
  /\ protected_folders \in ProtectedChoices
  /\ batch_size = MaxBatch
  /\ organize_all \in BOOLEAN
  /\ bookmarks = <<>>
  /\ bookmarks_json \in
        {AbsentJson} \cup
        UNION {{JsonFile(d, verified, "this") :
                  verified \in {{}, SeqToSet(Flatten(d))}}
               : d \in PipelineMaps}
  /\ updated_json \in {AbsentJson, StaleJson}
  /\ stage = "validate"
  /\ InitRun

(* ------------------------- validate_bookmarks -------------------------- *)
\* lines 74-83: no recent 'date-verified'
NeedsValidation(bookmark, verified) == bookmark \notin verified

\* lines 151-154: the folders handed to process_bookmarks
BookmarksToProcess(data, process_all) ==
  IF process_all THEN data
  ELSE <<Entry("Uncategorized",
               IF Has(data, "Uncategorized") THEN Get(data, "Uncategorized").parent ELSE None,
               BookmarksOf(data, "Uncategorized"))>>

\* lines 93-128: a bookmark stays unless it needed validation and its URL is dead
ProcessBookmarks(data, verified, dead) ==
  [k \in 1..Len(data) |->
     [data[k] EXCEPT !.bookmarks =
        SelectSeq(@, LAMBDA b : ~NeedsValidation(b, verified) \/ b \notin dead)]]

\* lines 120-121
RetiredUrls(data, verified, dead) ==
  SelectSeq(Flatten(data), LAMBDA b : NeedsValidation(b, verified) /\ b \in dead)

\* line 131: updated_count > 0 or len(retired_urls) > 0
ChangesMade(data, verified) ==
  \E b \in SeqToSet(Flatten(data)) : NeedsValidation(b, verified)

\* lines 161-164: in incremental mode "Uncategorized" is merged back
UpdatedData(data, processed, process_all) ==
  IF process_all THEN processed
  ELSE Put(data, "Uncategorized", processed[1].parent, processed[1].bookmarks)

\* lines 140-149: bookmarks.json is missing or unparsable
ValidateLoadFails ==
  /\ stage = "validate"
  /\ ~bookmarks_json.written
  /\ stage' = "reorganize"
  /\ UNCHANGED <<upstream, config, bookmarks, existing_categories,
                 categorized_bookmarks, bookmarks_to_categorize, i, batch, seen,
                 processed_bookmarks, pc, error, files, history>>

\* lines 133-184, called with retrieve_metadata=True and
\* process_all=reorganize_all; dead are the URLs check_url finds inactive
Validate(dead) ==
  /\ stage = "validate"
  /\ bookmarks_json.written
  /\ LET data == bookmarks_json.content
         verified == bookmarks_json.verified
         to_process == BookmarksToProcess(data, organize_all)
         processed == ProcessBookmarks(to_process, verified, dead)
         retired_urls == RetiredUrls(to_process, verified, dead)
         updated_data == UpdatedData(data, processed, organize_all)
     IN IF ChangesMade(to_process, verified)
        THEN /\ updated_json' =
                  JsonFile(updated_data,
                           (verified \cup SeqToSet(Flatten(processed)))
                              \cap SeqToSet(Flatten(updated_data)),
                           "this")
             /\ retired_file' = IF retired_urls # <<>> THEN Written(retired_urls)
                                ELSE retired_file
        ELSE UNCHANGED <<updated_json, retired_file>>
  /\ stage' = "reorganize"
  /\ UNCHANGED <<bookmarks_json, config, bookmarks, existing_categories,
                 categorized_bookmarks, bookmarks_to_categorize, i, batch, seen,
                 processed_bookmarks, pc, error, files, history>>

(* ------------------------ reorganize_bookmarks ------------------------- *)
\* lines 47-49
IsProtectedFolder(folder, protected) ==
  \E k \in 1..Len(protected) : StartsWith(folder, protected[k])

\* lines 67-85
ReorganizeAllBookmarks(d, protected) ==
  Put(SelectSeq(d, LAMBDA e : IsProtectedFolder(e.name, protected)),
      "Uncategorized", None,
      Flatten(SelectSeq(d, LAMBDA e : ~IsProtectedFolder(e.name, protected))))

\* lines 87-100
ReorganizeUncategorized(d) ==
  IF ~Has(d, "Uncategorized") THEN d
  ELSE Put(d, "Uncategorized", None, BookmarksOf(d, "Uncategorized"))

\* lines 102-107: the names save_categories writes
SaveCategories(d, protected) ==
  SelectSeq(Keys(d), LAMBDA folder : ~InList(folder, protected) /\ folder # "Uncategorized")

\* lines 117-120: config.yaml is missing or unparsable, sys.exit(1)
ReorganizeConfigFails ==
  /\ stage = "reorganize"
  /\ stage' = "exit1"
  /\ UNCHANGED <<upstream, config, bookmarks, existing_categories,
                 categorized_bookmarks, bookmarks_to_categorize, i, batch, seen,
                 processed_bookmarks, pc, error, files, history>>

\* lines 129-132: updated_bookmarks.json is missing or holds no folder,
\* sys.exit(1)
ReorganizeLoadFails ==
  /\ stage = "reorganize"
  /\ ~updated_json.written \/ updated_json.content = <<>>
  /\ stage' = "exit1"
  /\ UNCHANGED <<upstream, config, bookmarks, existing_categories,
                 categorized_bookmarks, bookmarks_to_categorize, i, batch, seen,
                 processed_bookmarks, pc, error, files, history>>

\* lines 115-144: reorganized_bookmarks.json and categories.json are written
Reorganize ==
  /\ stage = "reorganize"
  /\ updated_json.written /\ updated_json.content # <<>>
  /\ bookmarks' = IF organize_all
                  THEN ReorganizeAllBookmarks(updated_json.content, protected_folders)
                  ELSE ReorganizeUncategorized(updated_json.content)
  /\ categories_file' = Written(SaveCategories(bookmarks', protected_folders))
  /\ stage' = "categorize"
  /\ UNCHANGED <<upstream, config, existing_categories, categorized_bookmarks,
                 bookmarks_to_categorize, i, batch, seen, processed_bookmarks,
                 pc, error, output_file, history>>

(* ------------------- categorize_bookmarks: set-up ---------------------- *)
IsProtected(folder) == InList(folder, protected_folders)

\* line 71
InitialCategories(d) ==
  SelectSeq(Keys(d), LAMBDA cat : ~IsProtected(cat) /\ Lower(cat) # "uncategorized")

IsProtectedEntry(e) == IsProtected(e.name)
IsReorganizedEntry(e) == ~IsProtected(e.name) /\ e.name # "Uncategorized"
IsNotUncategorizedEntry(e) == e.name # "Uncategorized"

SeedFoldersProtectedOnly(d, all) == SelectSeq(d, IsProtectedEntry)

\* lines 74-83
SeedFolders(d, all) ==
  IF all THEN SelectSeq(d, IsProtectedEntry)
  ELSE SelectSeq(d, IsNotUncategorizedEntry)

ToCategorizeUncategorizedFirst(d, all) ==
  IF all
  THEN BookmarksOf(d, "Uncategorized") \o Flatten(SelectSeq(d, IsReorganizedEntry))
  ELSE BookmarksOf(d, "Uncategorized")

\* lines 76-83
ToCategorize(d, all) ==
  IF all
  THEN Flatten(SelectSeq(d, IsReorganizedEntry)) \o BookmarksOf(d, "Uncategorized")
  ELSE BookmarksOf(d, "Uncategorized")

\* lines 49-52: config.yaml is missing or unparsable
LoadConfigFails ==
  /\ stage = "categorize" /\ pc = "entry"
  /\ pc' = "returned"
  /\ error' = "config"
  /\ UNCHANGED <<upstream, config, bookmarks, existing_categories, categorized_bookmarks,
                 bookmarks_to_categorize, i, batch, seen, processed_bookmarks,
                 files, stage, history>>

\* line 60: the oracle cannot be created (unsupported llm_type, no API key);
\* the ValueError leaves categorize_bookmarks
CreateLlmFails ==
  /\ stage = "categorize" /\ pc = "entry"
  /\ pc' = "raised"
  /\ error' = "llm"
  /\ UNCHANGED <<upstream, config, bookmarks, existing_categories, categorized_bookmarks,
                 bookmarks_to_categorize, i, batch, seen, processed_bookmarks,
                 files, stage, history>>

\* lines 66-69: reorganized_bookmarks.json is missing, unparsable or empty
LoadBookmarksFails ==
  /\ stage = "categorize" /\ pc = "entry"
  /\ pc' = "returned"
  /\ error' = "input"
  /\ UNCHANGED <<upstream, config, bookmarks, existing_categories, categorized_bookmarks,
                 bookmarks_to_categorize, i, batch, seen, processed_bookmarks,
                 files, stage, history>>

\* lines 47-89
Setup ==
  /\ stage = "categorize" /\ pc = "entry"
  /\ existing_categories' = InitialCategories(bookmarks)
  /\ initial_categories' = InitialCategories(bookmarks)
  /\ categorized_bookmarks' = SeedFolders(bookmarks, organize_all)
  /\ bookmarks_to_categorize' = ToCategorize(bookmarks, organize_all)
  /\ i' = 0
  /\ processed_bookmarks' = 0
  /\ pc' = "loop"
  /\ UNCHANGED <<upstream, config, bookmarks, batch, seen, error, files, stage,
                 oracle_calls, placements, novel, omitted, stray>>

(* ------------------- categorize_bookmarks: batch loop ------------------ *)
BatchSliceOverlapping(list, offset, size) ==
  SubSeq(list, offset + 1, Min(offset + size + 1, Len(list)))

\* line 93: bookmarks_to_categorize[i:i+batch_size], i being 0-based
BatchSlice(list, offset, size) ==
  SubSeq(list, offset + 1, Min(offset + size, Len(list)))

IsFirstIterationAlways(offset) == TRUE

\* line 94
IsFirstIteration(offset) == offset = 0

\* openai_llm.py line 31: the prompt that asks for a fresh taxonomy
FreshTaxonomy(is_first_iteration, categories) ==
  is_first_iteration /\ categories = <<>>

OracleCallRecordInitial(b, categories, is_first_iteration) ==
  [batch |-> b, vocabulary |-> initial_categories,
   is_first_iteration |-> is_first_iteration,
   fresh |-> FreshTaxonomy(is_first_iteration, initial_categories)]

\* line 97: the arguments of llm.categorize_bookmarks
OracleCallRecord(b, categories, is_first_iteration) ==
  [batch |-> b, vocabulary |-> categories,
   is_first_iteration |-> is_first_iteration,
   fresh |-> FreshTaxonomy(is_first_iteration, categories)]

\* the integer keys an oracle mapping may hold for a batch
ReplyIndices(b) == (0 - 1)..(Len(b) + 1)

\* lines 92-102: the oracle returns a mapping
OracleCall ==
  /\ stage = "categorize" /\ pc = "loop"
  /\ i < Len(bookmarks_to_categorize)
  /\ batch' = BatchSlice(bookmarks_to_categorize, i, batch_size)
  /\ oracle_calls' = Append(oracle_calls,
                            OracleCallRecord(batch', existing_categories, IsFirstIteration(i)))
  /\ processed_bookmarks' = processed_bookmarks + Len(batch')
  /\ seen' = {}
  /\ pc' = "merge"
  /\ UNCHANGED <<upstream, config, bookmarks, existing_categories, categorized_bookmarks,
                 bookmarks_to_categorize, i, error, files, stage,
                 initial_categories, placements, novel, omitted, stray>>

AfterOracleFailureRetry == "loop"

\* where categorize_bookmarks continues when the oracle call raises:
\* line 97 is in no try block
AfterOracleFailure == "raised"

\* openai_llm.py lines 83-108: the call raises (no JSON object in the reply,
\* unparsable JSON, transport error)
OracleFails(kind) ==
  /\ stage = "categorize" /\ pc = "loop"
  /\ i < Len(bookmarks_to_categorize)
  /\ batch' = BatchSlice(bookmarks_to_categorize, i, batch_size)
  /\ oracle_calls' = Append(oracle_calls,
                            OracleCallRecord(batch', existing_categories, IsFirstIteration(i)))
  /\ error' = kind
  /\ pc' = AfterOracleFailure
  /\ UNCHANGED <<upstream, config, bookmarks, existing_categories, categorized_bookmarks,
                 bookmarks_to_categorize, i, seen, processed_bookmarks, files,
                 stage, initial_categories, placements, novel, omitted, stray>>

RoomRemainsInclusive(categories, maxc) == Len(categories) <= maxc

\* line 108
RoomRemains(categories, maxc) == Len(categories) < maxc

\* lines 107-113: the folder the bookmark is appended to
ResolveCategory(folders, categories, maxc, category) ==
  IF Has(folders, category) THEN category
  ELSE IF RoomRemains(categories, maxc) THEN category
  ELSE "Other"

CategoriesAfterForgetful(folders, categories, maxc, category) == categories

\* lines 107-109
CategoriesAfter(folders, categories, maxc, category) ==
  IF ~Has(folders, category) /\ RoomRemains(categories, maxc)
  THEN Append(categories, category)
  ELSE categories

\* lines 107-116
FoldersAfter(folders, categories, maxc, category) ==
  IF Has(folders, category) THEN folders
  ELSE IF RoomRemains(categories, maxc) THEN Put(folders, category, None, <<>>)
  ELSE IF ~Has(folders, "Other") THEN Put(folders, "Other", None, <<>>)
  ELSE folders

\* lines 104-119: one iteration over batch_categorization.items()
MergeItem(idx, category) ==
  /\ stage = "categorize" /\ pc = "merge"
  /\ idx \notin seen
  /\ Cardinality(seen) < Len(batch) + MaxExtra
  /\ seen' = seen \cup {idx}
  /\ stray' = (stray \/ idx \notin 1..Len(batch))
  /\ IF ~PyInRange(batch, idx - 1)
     THEN /\ pc' = "raised"
          /\ error' = "IndexError"
          /\ UNCHANGED <<existing_categories, categorized_bookmarks, placements,
                         novel>>
     ELSE LET bookmark == PyIndex(batch, idx - 1)
              resolved == ResolveCategory(categorized_bookmarks, existing_categories,
                                          max_categories, category)
          IN /\ existing_categories' =
                  CategoriesAfter(categorized_bookmarks, existing_categories,
                                  max_categories, category)
             /\ categorized_bookmarks' =
                  AppendTo(FoldersAfter(categorized_bookmarks, existing_categories,
                                        max_categories, category),
                           resolved, bookmark)
             /\ placements' = placements \cup {<<bookmark, category, resolved>>}
             /\ novel' = IF ~Has(bookmarks, category) /\ ~InList(category, novel)
                         THEN Append(novel, category) ELSE novel
             /\ UNCHANGED <<pc, error>>
  /\ UNCHANGED <<upstream, config, bookmarks, bookmarks_to_categorize, i, batch,
                 processed_bookmarks, files, stage, oracle_calls,
                 initial_categories, omitted>>

\* lines 121-129 and the loop increment of line 92
EndBatch ==
  /\ stage = "categorize" /\ pc = "merge"
  /\ omitted' = (omitted \/ ~((1..Len(batch)) \subseteq seen))
  /\ i' = i + batch_size
  /\ seen' = {}
  /\ pc' = "loop"
  /\ UNCHANGED <<upstream, config, bookmarks, existing_categories, categorized_bookmarks,
                 bookmarks_to_categorize, batch, processed_bookmarks, error,
                 files, stage, oracle_calls, initial_categories, placements,
                 novel, stray>>

\* line 137
FinalCategories(categories) ==
  SelectSeq(categories, LAMBDA cat : cat # "Other" /\ ~IsProtected(cat))

\* lines 131-138
Save ==
  /\ stage = "categorize" /\ pc = "loop"
  /\ i >= Len(bookmarks_to_categorize)
  /\ categorized_bookmarks' = Put(categorized_bookmarks, "Uncategorized", None, <<>>)
  /\ output_file' = Written(categorized_bookmarks')
  /\ categories_file' = Written(FinalCategories(existing_categories))
  /\ pc' = "returned"
  /\ UNCHANGED <<upstream, config, bookmarks, existing_categories, bookmarks_to_categorize,
                 i, batch, seen, processed_bookmarks, error, stage, history>>

(* ------------------------------ main.py -------------------------------- *)
\* lines 58-62: categorize_bookmarks returned, the export stage runs
RunExport ==
  /\ stage = "categorize" /\ pc = "returned"
  /\ stage' = "export"
  /\ UNCHANGED <<upstream, config, bookmarks, existing_categories, categorized_bookmarks,
                 bookmarks_to_categorize, i, batch, seen, processed_bookmarks,
                 pc, error, files, history>>

\* lines 62-69: export_bookmarks catches its own errors; main() ends normally
ExportReturns ==
  /\ stage = "export"
  /\ stage' = "exit0"
  /\ UNCHANGED <<upstream, config, bookmarks, existing_categories, categorized_bookmarks,
                 bookmarks_to_categorize, i, batch, seen, processed_bookmarks,
                 pc, error, files, history>>

\* lines 64-67: an exception of a stage ends the process with status 1
DriverCatches ==
  /\ stage = "categorize" /\ pc = "raised"
  /\ stage' = "exit1"
  /\ UNCHANGED <<upstream, config, bookmarks, existing_categories, categorized_bookmarks,
                 bookmarks_to_categorize, i, batch, seen, processed_bookmarks,
                 pc, error, files, history>>

Next ==
  \/ LoadConfigFails
  \/ CreateLlmFails
  \/ LoadBookmarksFails
  \/ Setup
  \/ OracleCall
  \/ \E kind \in OracleFailures : OracleFails(kind)
  \/ \E idx \in ReplyIndices(batch), category \in OracleNames : MergeItem(idx, category)
  \/ EndBatch
  \/ Save
  \/ RunExport
  \/ ExportReturns
  \/ DriverCatches

Spec == Init /\ [][Next]_vars

SpecBatches == InitBatches /\ [][Next]_vars

\* main.py lines 43-62: validate, reorganize, categorize, export
NextPipeline ==
  \/ ValidateLoadFails
  \/ \E dead \in SUBSET (1..MaxBookmarks) : Validate(dead)
  \/ ReorganizeLoadFails
  \/ ReorganizeConfigFails
  \/ Reorganize
  \/ Next

SpecPipeline == InitPipeline /\ [][NextPipeline]_vars

(* ------------------------------ properties ----------------------------- *)
Max(a, b) == IF a > b THEN a ELSE b
CeilDiv(a, b) == (a + b - 1) \div b

\* categorize_bookmarks ran to its end and saved its results
Completed == pc = "returned" /\ error = None
SavedMap == output_file.content
SavedCategories == categories_file.content
NothingSaved == ~output_file.written /\ ~categories_file.written

RECURSIVE Occurrences(_, _)
\* how often bookmark b occurs across the bookmark lists of folder map d
Occurrences(d, b) ==
  IF Len(d) = 0 THEN 0 ELSE Count(Head(d).bookmarks, b) + Occurrences(Tail(d), b)

\* folder names that are neither protected nor "Uncategorized"
CountedNames(d) ==
  {name \in KeySet(d) : ~IsProtected(name) /\ name # "Uncategorized"}

\* folder names that are neither protected, nor "Other", nor "Uncategorized"
\* in any letter case
CappedNames(d) ==
  {name \in KeySet(d) :
     ~IsProtected(name) /\ name # "Other" /\ Lower(name) # "uncategorized"}

C2_Coverage ==
  (Completed /\ ~omitted /\ ~stray) =>
    \A b \in SeqToSet(bookmarks_to_categorize) : Occurrences(SavedMap, b) = 1

\* C3: after a completed run, in either mode, every protected folder of the
\* input is in the saved folder map with the same bookmarks as in the input.
C3_ProtectedUnchanged ==
  Completed =>
    \A k \in 1..Len(bookmarks) :
      IsProtected(bookmarks[k].name) =>
        /\ Has(SavedMap, bookmarks[k].name)
        /\ SeqToSet(Get(SavedMap, bookmarks[k].name).bookmarks)
             = SeqToSet(bookmarks[k].bookmarks)

\* C4: with max_categories = N, once the oracle has returned N+1 distinct names
\* that no input folder has, every bookmark assigned the (N+1)th of them is in
\* the "Other" folder of the saved folder map; the saved category list never
\* contains "Other".
C4_OverflowToOther ==
  Completed =>
    /\ ~InList("Other", SavedCategories)
    /\ Len(novel) > max_categories =>
         \A p \in placements :
           p[2] = novel[max_categories + 1] =>
             /\ Has(SavedMap, "Other")
             /\ p[1] \in SeqToSet(Get(SavedMap, "Other").bookmarks)

C4_Witness ==
  /\ Completed
  /\ Len(novel) > max_categories
  /\ novel[max_categories + 1] # "Other"
  /\ \E p \in placements : p[2] = novel[max_categories + 1]

\* C5: every category resolution of the batch loop keeps the oracle's name
\* when the name is in the vocabulary or the vocabulary holds fewer than
\* max_categories names, and turns it into "Other" only when the name is not in
\* the vocabulary and the vocabulary holds max_categories names or more.
C5_Resolution ==
  [][\A p \in placements' \ placements :
       /\ (InList(p[2], existing_categories)
             \/ Len(existing_categories) < max_categories) => p[3] = p[2]
       /\ (p[3] = "Other" /\ p[2] # "Other") =>
            (~InList(p[2], existing_categories)
               /\ Len(existing_categories) >= max_categories)]_vars

\* C6: once an oracle mapping has omitted an index of 1..len(batch), the run
\* does not return normally and neither file is saved.
C6_MissingIndexFails ==
  omitted => (pc # "returned" /\ NothingSaved)

\* C7: once an oracle call has failed, categorize_bookmarks has raised to its
\* caller, the failed call was the only call for its batch, and neither
\* categorized_bookmarks.json nor categories.json has been written.
C7_OracleFailureAborts ==
  error \in OracleFailures =>
    /\ pc = "raised"
    /\ stage \in {"categorize", "exit1"}
    /\ Len(oracle_calls) = (i \div batch_size) + 1
    /\ NothingSaved

C7_Witness ==
  /\ error \in OracleFailures
  /\ Len(oracle_calls) >= 2
  /\ placements # {}
  /\ stage = "exit1"

\* C8: when the categorize stage could not load its configuration or its input
\* file, no batch was run, the export stage is not executed and the process
\* does not end with status 0.
C8_LoadFailureTerminates ==
  error \in {"config", "input"} =>
    (oracle_calls = <<>> /\ stage \notin {"export", "exit0"})

\* C9: an oracle call uses the fresh-taxonomy prompt if and only if it is the
\* first call of the run and the vocabulary was empty when the run started.
C9_FreshTaxonomy ==
  \A k \in 1..Len(oracle_calls) :
    oracle_calls[k].fresh <=> (k = 1 /\ initial_categories = <<>>)

C9_Witness ==
  /\ Len(oracle_calls) >= 2
  /\ oracle_calls[1].fresh
  /\ oracle_calls[2].vocabulary = <<>>
  /\ ~oracle_calls[2].fresh

\* the batches of the calls k..Len(calls), concatenated
RECURSIVE BatchesFrom(_, _)
BatchesFrom(calls, k) ==
  IF k > Len(calls) THEN <<>> ELSE calls[k].batch \o BatchesFrom(calls, k + 1)

\* C10: for a sequence of length n and batch size b, the k-th oracle call
\* receives elements (k-1)*b+1 .. min(k*b, n) in order, every batch is
\* non-empty, only the last is shorter than b, and a completed run has made
\* exactly ceil(n/b) calls whose batches concatenate to the sequence.
C10_Batching ==
  LET n == Len(bookmarks_to_categorize)
      b == batch_size
  IN /\ Len(oracle_calls) <= CeilDiv(n, b)
     /\ \A k \in 1..Len(oracle_calls) :
          /\ oracle_calls[k].batch =
               [j \in 1..(Min(k * b, n) - (k - 1) * b) |->
                  bookmarks_to_categorize[(k - 1) * b + j]]
          /\ Len(oracle_calls[k].batch) >= 1
          /\ Len(oracle_calls[k].batch) < b => k = CeilDiv(n, b)
     /\ Completed =>
          /\ Len(oracle_calls) = CeilDiv(n, b)
          /\ BatchesFrom(oracle_calls, 1) = bookmarks_to_categorize

C10_Witness ==
  /\ Completed
  /\ Len(oracle_calls) = 2
  /\ Len(oracle_calls[1].batch) = batch_size
  /\ Len(oracle_calls[2].batch) < batch_size

\* categorize_bookmarks has built its vocabulary, folder map and sequence
HasSetUp == pc # "entry" /\ error \notin {"config", "input", "llm"}

\* position of the folder of d that holds bookmark b, and of b in that folder
FolderIndex(d, b) == CHOOSE k \in 1..Len(d) : b \in SeqToSet(d[k].bookmarks)
PlaceIn(list, b) == CHOOSE k \in 1..Len(list) : list[k] = b

\* the bookmarks of the folders of d that are not protected
Unprotected(d) ==
  UNION {SeqToSet(d[k].bookmarks) : k \in {j \in 1..Len(d) : ~IsProtected(d[j].name)}}

\* list holds exactly the bookmarks of set, each once
Enumerates(list, set) ==
  SeqToSet(list) = set /\ Len(list) = Cardinality(set)

\* a precedes b in list exactly when its folder ranks lower, or the folders
\* are the same and a precedes b in the folder
OrderedBy(list, d, rank(_)) ==
  \A a, b \in SeqToSet(list) :
    a # b =>
      (PlaceIn(list, a) < PlaceIn(list, b)
         <=> \/ rank(FolderIndex(d, a)) < rank(FolderIndex(d, b))
             \/ /\ FolderIndex(d, a) = FolderIndex(d, b)
                /\ PlaceIn(d[FolderIndex(d, a)].bookmarks, a)
                     < PlaceIn(d[FolderIndex(d, b)].bookmarks, b))

InputRank(k) == k
UncategorizedLastRank(k) ==
  IF bookmarks[k].name = "Uncategorized" THEN Len(bookmarks) + 1 ELSE k

\* C11 as claimed: in full-reorganization mode the to-be-categorized sequence
\* holds every bookmark of every non-protected input folder once, folders in
\* the order of the input folder map and bookmarks in their order within the
\* folder; in incremental mode it is the bookmark list of "Uncategorized".
C11_SequenceInMapOrder ==
  HasSetUp =>
    IF organize_all
    THEN /\ Enumerates(bookmarks_to_categorize, Unprotected(bookmarks))
         /\ OrderedBy(bookmarks_to_categorize, bookmarks, InputRank)
    ELSE bookmarks_to_categorize = BookmarksOf(bookmarks, "Uncategorized")

\* C11 as amended: as claimed, except that in full-reorganization mode the
\* bookmarks of "Uncategorized" come last, after those of every other
\* non-protected folder, wherever "Uncategorized" stands in the input map.
C11_Sequence ==
  HasSetUp =>
    IF organize_all
    THEN /\ Enumerates(bookmarks_to_categorize, Unprotected(bookmarks))
         /\ OrderedBy(bookmarks_to_categorize, bookmarks, UncategorizedLastRank)
    ELSE bookmarks_to_categorize = BookmarksOf(bookmarks, "Uncategorized")

C11_Witness ==
  /\ HasSetUp /\ organize_all
  /\ Len(bookmarks) = 2
  /\ bookmarks[1].name = "Uncategorized" /\ bookmarks[1].bookmarks # <<>>
  /\ ~IsProtected(bookmarks[2].name) /\ bookmarks[2].bookmarks # <<>>
  /\ Len(bookmarks_to_categorize) = 2

\* C14: the vocabulary a run starts with is exactly the set of input folder
\* names that are not protected and differ from "Uncategorized" as strings,
\* letter case included.
C14_InitialVocabulary ==
  HasSetUp =>
    SeqToSet(initial_categories) =
      {name \in KeySet(bookmarks) : ~IsProtected(name) /\ name # "Uncategorized"}

NoDuplicates(list) == \A a, b \in 1..Len(list) : a # b => list[a] # list[b]

\* C15: the category list saved by a completed run that started with at most
\* max_categories names holds no name twice and at most max_categories names.
C15_SavedCategoryList ==
  (Completed /\ Len(initial_categories) <= max_categories) =>
    /\ NoDuplicates(SavedCategories)
    /\ Len(SavedCategories) <= max_categories

EmptyUncategorized == Entry("Uncategorized", None, <<>>)

\* the entries of saved are those of kept, unchanged, and an empty "Uncategorized"
KeepsExactly(saved, kept) ==
  /\ KeySet(saved) = KeySet(kept) \cup {"Uncategorized"}
  /\ \A k \in 1..Len(kept) :
       kept[k].name # "Uncategorized" => Get(saved, kept[k].name) = kept[k]
  /\ Get(saved, "Uncategorized") = EmptyUncategorized

\* C16 as claimed: when the to-be-categorized sequence is empty the oracle is
\* never called, the run can only go on to save, and in either mode the saved
\* folder map is exactly the protected folders and an empty "Uncategorized".
C16_EmptyRunKeepsProtectedOnly ==
  (HasSetUp /\ bookmarks_to_categorize = <<>>) =>
    /\ oracle_calls = <<>>
    /\ pc \in {"loop", "returned"}
    /\ pc = "loop" => ENABLED Save
    /\ Completed => KeepsExactly(SavedMap, SelectSeq(bookmarks, IsProtectedEntry))

\* C16 as amended: as claimed for full-reorganization mode; in incremental mode
\* the saved folder map is every input folder other than "Uncategorized",
\* unchanged, and an empty "Uncategorized".
C16_EmptyRun ==
  (HasSetUp /\ bookmarks_to_categorize = <<>>) =>
    /\ oracle_calls = <<>>
    /\ pc \in {"loop", "returned"}
    /\ pc = "loop" => ENABLED Save
    /\ Completed =>
         KeepsExactly(SavedMap,
                      IF organize_all
                      THEN SelectSeq(bookmarks, IsProtectedEntry)
                      ELSE SelectSeq(bookmarks, IsNotUncategorizedEntry))

C16_Witness ==
  /\ Completed /\ ~organize_all
  /\ bookmarks_to_categorize = <<>>
  /\ \E k \in 1..Len(bookmarks) :
       /\ ~IsProtected(bookmarks[k].name)
       /\ bookmarks[k].name # "Uncategorized"
       /\ bookmarks[k].bookmarks # <<>>
  /\ Has(bookmarks, "Uncategorized")

\* C19: once an oracle mapping has held an index outside 1..len(batch), the run
\* has failed with an error.
C19_StrayIndexFails ==
  stray => (pc = "raised" /\ error = "IndexError")

\* every folder's parent is absent or names another folder of the same map
WellParented(d) ==
  \A k \in 1..Len(d) :
    \/ d[k].parent = None
    \/ d[k].parent # d[k].name /\ Has(d, d[k].parent)

\* C13: when every parent in the input folder map is absent or another folder
\* of that map, the same is true of the folder map saved by a completed run.
C13_ParentsResolve ==
  (Completed /\ WellParented(bookmarks)) => WellParented(SavedMap)

IsPrefix(a, b) == Len(a) <= Len(b) /\ SubSeq(b, 1, Len(a)) = a

\* the categories one merge step creates: the folders it adds to the output
\* map while the vocabulary is below the cap (a folder added at the cap is the
\* overflow folder "Other")
CreatedByStep ==
  IF Len(existing_categories) < max_categories
  THEN SelectSeq(Keys(categorized_bookmarks'),
                 LAMBDA name : ~Has(categorized_bookmarks, name))
  ELSE <<>>

PipelineHasSetUp == stage = "categorize" /\ HasSetUp

\* C12: in a pipeline run, a folder of the reorganized map whose name starts
\* with a protected prefix (a folder the reorganize stage kept as protected)
\* has none of its bookmarks in the to-be-categorized sequence, does not have
\* its name in the vocabulary the categorize stage starts with, and is in the
\* saved folder map, unchanged, when the run completes.
C12_PrefixProtected ==
  PipelineHasSetUp =>
    \A k \in 1..Len(bookmarks) :
      IsProtectedFolder(bookmarks[k].name, protected_folders) =>
        /\ SeqToSet(bookmarks[k].bookmarks) \cap SeqToSet(bookmarks_to_categorize) = {}
        /\ ~InList(bookmarks[k].name, initial_categories)
        /\ Completed =>
             /\ Has(SavedMap, bookmarks[k].name)
             /\ Get(SavedMap, bookmarks[k].name) = bookmarks[k]

\* the folder map validate_bookmarks makes of bookmarks.json when the URLs of
\* retired are the ones found dead
ValidatedForm(retired) ==
  UpdatedData(bookmarks_json.content,
              ProcessBookmarks(BookmarksToProcess(bookmarks_json.content, organize_all),
                               bookmarks_json.verified, SeqToSet(retired)),
              organize_all)

\* C20: once the validate stage has returned after reading bookmarks.json,
\* updated_bookmarks.json is a file this run wrote and holds the validated
\* form of that bookmarks.json.
C20_UpdatedFileIsFresh ==
  (stage # "validate" /\ bookmarks_json.written) =>
    /\ updated_json.written
    /\ updated_json.origin = "this"
    /\ updated_json.content = ValidatedForm(retired_file.content)

====
